---- MODULE Spec2Model ----
(***************************************************************************)
(* Model of src/KitaevHamiltonianBlock.py: the block of the Kitaev/SYK     *)
(* Hamiltonian in the sector (N, Q), its two assemblers and its            *)
(* diagonalization wrapper.                                                *)
(*                                                                         *)
(* The disorder tensor J is kept symbolic: a matrix entry is a formal sum  *)
(* of terms  c * J.elem(i,j,k,l)  (times the overall coefficient once the  *)
(* matrix has been scaled), so two matrices are equal here exactly when    *)
(* they are equal for every tensor J.                                      *)
(*                                                                         *)
(* A call either returns or raises; an operator that models a method       *)
(* returns a record whose field exc is "none" or the name of the Python    *)
(* exception that left the method.                                         *)
(***************************************************************************)
EXTENDS Integers, Sequences, FiniteSets, TLC

VARIABLES N, Q, cls, order, blk, ret, indices, arg

vars == <<N, Q, cls, order, blk, ret, indices, arg>>

\* Largest number of modes explored.
MaxN == 4
\* Largest number of modes of a block on which the client calls
\* add_term_and_state_contribution itself.
MaxCallN == 3
\* Largest number of direct calls of add_term_and_state_contribution on one block.
MaxDirectCalls == 1
\* Mode indices of the lists handed to the two index-expansion methods are below this.
MaxIndex == 5

Modes == 0 .. (N - 1)

-----------------------------------------------------------------------------
(* Helpers of the collaborators: scipy.special.binom and BasisState.       *)

RECURSIVE Choose(_, _)
Choose(c, k) ==
    IF k < 0 \/ k > c THEN 0
    ELSE IF k = 0 \/ k = c THEN 1
    ELSE Choose(c - 1, k - 1) + Choose(c - 1, k)

\* int(scipy.special.binom(c, k)); c >= 0 wherever the code calls it.
binomial(c, k) == Choose(c, k)

\* The ascending list of a set of modes, and back.
RECURSIVE AscList(_)
AscList(S) ==
    IF S = {} THEN << >>
    ELSE LET m == CHOOSE x \in S : \A y \in S : y <= x
         IN Append(AscList(S \ {m}), m)

Range(s) == {s[x] : x \in DOMAIN s}

\* BasisState(indices): the occupation tuple with coefficient 1.
BasisState(occ) == [occ |-> occ, coef |-> 1]

ZeroState == [occ |-> {}, coef |-> 0]

is_zero(s) == s.coef = 0

charge(s) == Cardinality(s.occ)

\* Sign picked up when an operator on mode m passes the occupied modes below m.
Sign(occ, m) == IF Cardinality({x \in occ : x < m}) % 2 = 0 THEN 1 ELSE -1

annihilate(s, m) ==
    IF is_zero(s) THEN s
    ELSE IF m \notin s.occ THEN ZeroState
    ELSE [occ |-> s.occ \ {m}, coef |-> s.coef * Sign(s.occ, m)]

create(s, m) ==
    IF is_zero(s) THEN s
    ELSE IF m \in s.occ THEN ZeroState
    ELSE [occ |-> s.occ \cup {m}, coef |-> s.coef * Sign(s.occ, m)]

\* Rank of an occupation tuple c_1 < ... < c_q: the sum of C(c_t, t).
RECURSIVE RankOf(_)
RankOf(occ) ==
    IF occ = {} THEN 0
    ELSE LET m == CHOOSE x \in occ : \A y \in occ : y <= x
         IN binomial(m, Cardinality(occ)) + RankOf(occ \ {m})

get_state_number(s) == RankOf(s.occ)

\* The inverse of the rank: the q-tuple of modes whose rank is n.
state_number_to_occupations(n, q) ==
    CHOOSE occ \in SUBSET Modes : Cardinality(occ) = q /\ RankOf(occ) = n

-----------------------------------------------------------------------------
(* The term quadruples in the order of the four nested loops.              *)

PairSet == {pr \in Modes \X Modes : pr[1] < pr[2]}

PairLess(a, b) == a[1] < b[1] \/ (a[1] = b[1] /\ a[2] < b[2])

NPairs == Cardinality(PairSet)

PairAt(n) ==
    CHOOSE pr \in PairSet : Cardinality({o \in PairSet : PairLess(o, pr)}) = n - 1

\* for i: for j in (i+1..N): for k: for l in (k+1..N)
TermLoop ==
    [t \in 1 .. (NPairs * NPairs) |->
        LET a == PairAt(((t - 1) \div NPairs) + 1)
            b == PairAt(((t - 1) % NPairs) + 1)
        IN <<a[1], a[2], b[1], b[2]>>]

-----------------------------------------------------------------------------
(* The block object.  status is "unbuilt" before the constructor runs,     *)
(* "built" once it has returned, and the exception's name when it raised   *)
(* (no object exists then).  An attribute the constructor never assigned   *)
(* is "unset": reading it raises AttributeError.                           *)

NoMatrix == [x \in {} |-> 0]

NoBlock ==
    [status |-> "unbuilt", matrix |-> NoMatrix, log |-> {},
     diagonalized |-> "unset", evs |-> "unset", U |-> "unset",
     diag_called |-> FALSE, calls |-> 0]

Raised(e) == [NoBlock EXCEPT !.status = e]

Key(bra_n, ket_n, term) ==
    [bra |-> bra_n, ket |-> ket_n, term |-> term, scaled |-> FALSE]

\* matrix[bra_n, ket_n] += J.elem(term) * c.  An entry is the formal sum of
\* its contributions; contributions that cancel leave no entry.
Accumulate(matrix, bra_n, ket_n, term, c) ==
    LET key == Key(bra_n, ket_n, term)
        old(x) == IF x \in DOMAIN matrix THEN matrix[x] ELSE 0
        new(x) == old(x) + (IF x = key THEN c ELSE 0)
    IN [x \in {y \in DOMAIN matrix \cup {key} : new(y) # 0} |-> new(x)]

\* matrix *= coefficient
Scale(matrix) ==
    LET scaled(x) == [x EXCEPT !.scaled = TRUE]
    IN [x \in {scaled(y) : y \in DOMAIN matrix} |->
           matrix[CHOOSE y \in DOMAIN matrix : scaled(y) = x]]

dim == binomial(N, Q)

\* c*_i c*_j c_k c_l |ket>.  The method changes the state it is given and
\* returns that same object.
act_with_c_operators(i, j, k, l, ket) ==
    create(create(annihilate(annihilate(ket, l), k), j), i)

Entry(by, term, before, bra, bra_n, ket_n) ==
    [by |-> by, term |-> term, ket_occ |-> before.occ, bra_occ |-> bra.occ,
     bra_n |-> bra_n, ket_n |-> ket_n, coef |-> bra.coef]

\* add_term_and_state_contribution with the assertion of line 53 left out.
add_term_and_state_contribution_without_charge_assert(self, i, j, k, l, ind) ==
    LET before == BasisState(Range(ind))
        bra == act_with_c_operators(i, j, k, l, before)
        ket == bra
        ket_n == get_state_number(ket)
        bra_n == get_state_number(bra)
    IN IF is_zero(bra) THEN [exc |-> "none", self |-> self, bra |-> bra]
       ELSE IF ~(bra_n >= 0 /\ bra_n < dim)
       THEN [exc |-> "AssertionError", self |-> self, bra |-> bra]
       ELSE [exc |-> "none", bra |-> bra,
             self |-> [self EXCEPT
                 !.matrix = Accumulate(@, bra_n, ket_n, <<i, j, k, l>>, bra.coef),
                 !.log = @ \cup {Entry("add_term_and_state_contribution",
                                       <<i, j, k, l>>, before, bra, bra_n, ket_n)}]]

\* Lines 44-45: ket is built from the list and handed to act_with_c_operators,
\* which returns it; from then on ket and bra are one object, and ket_n
\* (line 54) is read from it after the operators have acted.
add_term_and_state_contribution(self, i, j, k, l, ind) ==
    LET before == BasisState(Range(ind))
        bra == act_with_c_operators(i, j, k, l, before)
        ket == bra
        ket_n == get_state_number(ket)
        bra_n == get_state_number(bra)
    IN IF is_zero(bra) THEN [exc |-> "none", self |-> self, bra |-> bra]
       ELSE IF charge(bra) # Q
       THEN [exc |-> "AssertionError", self |-> self, bra |-> bra]
       ELSE IF ~(bra_n >= 0 /\ bra_n < dim)
       THEN [exc |-> "AssertionError", self |-> self, bra |-> bra]
       ELSE [exc |-> "none", bra |-> bra,
             self |-> [self EXCEPT
                 !.matrix = Accumulate(@, bra_n, ket_n, <<i, j, k, l>>, bra.coef),
                 !.log = @ \cup {Entry("add_term_and_state_contribution",
                                       <<i, j, k, l>>, before, bra, bra_n, ket_n)}]]

\* Line 64 (and line 80): indices is a List[int] (lines 61, 78, 103), and a
\* list has no attribute begin: the call raises AttributeError before the
\* loop is entered, and the list is left as it was.
insert_index_and_shift(ind, i) == [exc |-> "AttributeError", indices |-> ind]

shift_starting_at_index(ind, i) == [exc |-> "AttributeError", indices |-> ind]

\* Number of reduced ranks the loop of the term's case runs over
\* (lines 102, 110, 126, 141, 149, 164).
reduced_count(i, j, k, l) ==
    IF i = k /\ j = l THEN binomial(N - 2, Q - 2)
    ELSE IF i = k THEN binomial(N - 3, Q - 2)
    ELSE IF j = l THEN binomial(N - 3, Q - 2)
    ELSE IF i = l THEN binomial(N - 3, Q - 2)
    ELSE IF j = k THEN binomial(N - 3, Q - 2)
    ELSE binomial(N - 4, Q - 2)

\* The names the module binds (lines 1-11 and 262) and the names that are
\* local to add_hamiltonian_term_contribution (lines 86-89 and its loops).
module_names ==
    {"List", "np", "LA", "binom", "BasisState", "state_number_to_occupations",
     "binomial", "KitaevHamiltonianBlock", "NaiveKitaevHamiltonianBlock"}

term_locals == {"self", "J", "i", "j", "k", "l", "n", "indices"}

name_lookup(name, locals) ==
    IF name \in locals \cup module_names THEN "none" ELSE "NameError"

\* The first statement of every loop body is
\*     indices = state_number_to_occupations(n, Q - 2)
\* with the bare name Q (not self.Q), which is bound nowhere: the first
\* iteration raises NameError, before any index list exists.  produced is
\* the list of the index tuples handed on to add_term_and_state_contribution.
add_hamiltonian_term_contribution(self, i, j, k, l) ==
    IF ~(i < j) \/ ~(k < l)
    THEN [exc |-> "AssertionError", self |-> self, produced |-> << >>]
    ELSE IF reduced_count(i, j, k, l) = 0
    THEN [exc |-> "none", self |-> self, produced |-> << >>]
    ELSE [exc |-> name_lookup("Q", term_locals), self |-> self, produced |-> << >>]

\* The four loops of lines 32-36 over the terms ord[lo], ..., ord[hi]; the
\* first exception leaves the loops.
RECURSIVE optimized_terms(_, _, _, _)
optimized_terms(st, ord, lo, hi) ==
    IF st.exc # "none" \/ lo > hi THEN st
    ELSE IF lo = hi
    THEN LET t == ord[lo]
             r == add_hamiltonian_term_contribution(st.self, t[1], t[2], t[3], t[4])
         IN [exc |-> r.exc, self |-> r.self]
    ELSE LET mid == (lo + hi) \div 2
         IN optimized_terms(optimized_terms(st, ord, lo, mid), ord, mid + 1, hi)

\* ord is the order in which the four loops visit the terms.
initialize_block_matrix(self, ord) ==
    LET r == optimized_terms([exc |-> "none", self |-> [self EXCEPT !.matrix = NoMatrix]],
                             ord, 1, Len(ord))
    IN IF r.exc # "none" THEN r
       ELSE [exc |-> "none", self |-> [r.self EXCEPT !.matrix = Scale(@)]]

\* KitaevHamiltonianBlock(N, Q, J)
KitaevHamiltonianBlock_init(ord) ==
    LET r == initialize_block_matrix([NoBlock EXCEPT !.diagonalized = "False"], ord)
    IN IF r.exc # "none" THEN Raised(r.exc)
       ELSE [r.self EXCEPT !.status = "built"]

\* KitaevHamiltonianBlock(N, Q) and KitaevHamiltonianBlock(N, Q, block=m):
\* __init__ returns an array (line 19), which Python refuses.
KitaevHamiltonianBlock_init_without_J(has_block) == Raised("TypeError")

-----------------------------------------------------------------------------
(* The naive assembler.                                                    *)

\* Lines 287-299 for one term.  ket is the one BasisState object made at
\* line 280: act_with_c_operators changes it in place and returns it, so the
\* next term acts on what the terms before it have left of the ket.
naive_term(st, t, ket_n) ==
    LET bra == act_with_c_operators(t[1], t[2], t[3], t[4], st.ket)
        bra_n == get_state_number(bra)
    IN IF is_zero(bra) THEN [st EXCEPT !.ket = bra]
       ELSE IF charge(bra) # Q THEN [st EXCEPT !.exc = "AssertionError", !.ket = bra]
       ELSE IF ~(bra_n >= 0 /\ bra_n < dim)
       THEN [st EXCEPT !.exc = "AssertionError", !.ket = bra]
       ELSE [exc |-> "none", ket |-> bra,
             self |-> [st.self EXCEPT
                 !.matrix = Accumulate(@, bra_n, ket_n, t, bra.coef),
                 !.log = @ \cup {Entry("naive", t, st.ket, bra, bra_n, ket_n)}]]

\* Lines 283-286: the terms ord[lo], ..., ord[hi] for one ket rank.
RECURSIVE naive_terms(_, _, _, _, _)
naive_terms(st, ord, lo, hi, ket_n) ==
    IF st.exc # "none" \/ lo > hi THEN st
    ELSE IF lo = hi THEN naive_term(st, ord[lo], ket_n)
    ELSE LET mid == (lo + hi) \div 2
         IN naive_terms(naive_terms(st, ord, lo, mid, ket_n), ord, mid + 1, hi, ket_n)

\* Lines 279-280: the ket ranks from ket_n on.
RECURSIVE naive_kets(_, _, _)
naive_kets(self, ord, ket_n) ==
    IF ket_n >= dim THEN [exc |-> "none", self |-> self]
    ELSE LET ket == BasisState(state_number_to_occupations(ket_n, Q))
             r == naive_terms([exc |-> "none", self |-> self, ket |-> ket],
                              ord, 1, Len(ord), ket_n)
         IN IF r.exc # "none" THEN [exc |-> r.exc, self |-> r.self]
            ELSE naive_kets(r.self, ord, ket_n + 1)

initialize_block_matrix_naive_implementation(self, ord) ==
    LET r == naive_kets([self EXCEPT !.matrix = NoMatrix], ord, 0)
    IN IF r.exc # "none" THEN r
       ELSE [exc |-> "none", self |-> [r.self EXCEPT !.matrix = Scale(@)]]

\* NaiveKitaevHamiltonianBlock(N, Q, J): sets N and Q and assembles; the
\* base class's __init__ is not run, so diagonalized stays unset.
NaiveKitaevHamiltonianBlock_init(ord) ==
    LET r == initialize_block_matrix_naive_implementation(NoBlock, ord)
    IN IF r.exc # "none" THEN Raised(r.exc)
       ELSE [r.self EXCEPT !.status = "built"]

-----------------------------------------------------------------------------
(* Diagonalization and the spectrum accessors.                             *)

\* diagonalize with the early return of lines 229-230 left out.
diagonalize_unguarded(self, full) ==
    IF self.diagonalized = "unset"
    THEN [exc |-> "AttributeError", self |-> self]
    ELSE IF full
    THEN [exc |-> "none",
          self |-> [self EXCEPT !.evs = "eig.w", !.U = "eig.v", !.diagonalized = "True"]]
    ELSE [exc |-> "none",
          self |-> [self EXCEPT !.evs = "eigvals", !.diagonalized = "True"]]

diagonalize(self, full) ==
    IF self.diagonalized = "unset"
    THEN [exc |-> "AttributeError", self |-> self]
    ELSE IF self.diagonalized = "True"
    THEN [exc |-> "none", self |-> self]
    ELSE IF full
    THEN [exc |-> "none",
          self |-> [self EXCEPT !.evs = "eig.w", !.U = "eig.v", !.diagonalized = "True"]]
    ELSE [exc |-> "none",
          self |-> [self EXCEPT !.evs = "eigvals", !.diagonalized = "True"]]

\* assert self.diagonalized
assert_diagonalized(self) ==
    IF self.diagonalized = "unset" THEN "AttributeError"
    ELSE IF self.diagonalized = "False" THEN "AssertionError"
    ELSE "none"

eigenvalues(self) ==
    IF assert_diagonalized(self) # "none"
    THEN [exc |-> assert_diagonalized(self), value |-> "none"]
    ELSE [exc |-> "none", value |-> self.evs]

\* Line 254 calls the eigenvalue array, self.evs(i): TypeError on the first
\* row of the loop.
D_matrix(self) ==
    IF assert_diagonalized(self) # "none"
    THEN [exc |-> assert_diagonalized(self), value |-> "none"]
    ELSE IF dim > 0 THEN [exc |-> "TypeError", value |-> "none"]
    ELSE [exc |-> "none", value |-> "D"]

U_matrix(self) ==
    IF assert_diagonalized(self) # "none"
    THEN [exc |-> assert_diagonalized(self), value |-> "none"]
    ELSE IF self.U = "unset" THEN [exc |-> "AttributeError", value |-> "none"]
    ELSE [exc |-> "none", value |-> self.U]

-----------------------------------------------------------------------------
(* The state machine: one block per behaviour, of the class cls, built for *)
(* the sector (N, Q), and the calls a client makes on it.  ret records the *)
(* last call and how it ended.                                             *)

Classes == {"KitaevHamiltonianBlock", "NaiveKitaevHamiltonianBlock"}

NoRet ==
    [op |-> "none", exc |-> "none", value |-> "none", pre |-> "unset",
     called |-> FALSE, term |-> << >>, ind |-> << >>, produced |-> << >>,
     bra |-> ZeroState, accumulated |-> FALSE]

Init ==
    /\ N \in 1 .. MaxN
    /\ Q \in 0 .. N
    /\ cls \in Classes
    /\ order = TermLoop
    /\ blk = NoBlock
    /\ ret = NoRet
    /\ indices = << >>
    /\ arg = 0

Ended(b) == IF b.status = "built" THEN "none" ELSE b.status

NewOptimized ==
    /\ cls = "KitaevHamiltonianBlock"
    /\ blk.status = "unbuilt"
    /\ blk' = KitaevHamiltonianBlock_init(order)
    /\ ret' = [NoRet EXCEPT !.op = "KitaevHamiltonianBlock(N, Q, J)",
                            !.exc = Ended(blk')]
    /\ UNCHANGED <<N, Q, cls, order, indices, arg>>

NewOptimizedWithoutJ ==
    /\ cls = "KitaevHamiltonianBlock"
    /\ blk.status = "unbuilt"
    /\ \E has_block \in BOOLEAN :
          blk' = KitaevHamiltonianBlock_init_without_J(has_block)
    /\ ret' = [NoRet EXCEPT !.op = "KitaevHamiltonianBlock(N, Q)", !.exc = Ended(blk')]
    /\ UNCHANGED <<N, Q, cls, order, indices, arg>>

NewNaive ==
    /\ cls = "NaiveKitaevHamiltonianBlock"
    /\ blk.status = "unbuilt"
    /\ blk' = NaiveKitaevHamiltonianBlock_init(order)
    /\ ret' = [NoRet EXCEPT !.op = "NaiveKitaevHamiltonianBlock(N, Q, J)",
                            !.exc = Ended(blk')]
    /\ UNCHANGED <<N, Q, cls, order, indices, arg>>

Diagonalize ==
    /\ blk.status = "built"
    /\ \E full \in BOOLEAN :
          LET r == diagonalize(blk, full)
          IN /\ blk' = [r.self EXCEPT !.diag_called = TRUE]
             /\ ret' = [NoRet EXCEPT !.op = "diagonalize", !.exc = r.exc,
                                     !.pre = blk.diagonalized,
                                     !.called = blk.diag_called]
    /\ UNCHANGED <<N, Q, cls, order, indices, arg>>

CallAccessor(name, r) ==
    /\ blk.status = "built"
    /\ ret' = [NoRet EXCEPT !.op = name, !.exc = r.exc, !.value = r.value,
                            !.pre = blk.diagonalized, !.called = blk.diag_called]
    /\ UNCHANGED <<N, Q, cls, order, blk, indices, arg>>

Eigenvalues == CallAccessor("eigenvalues", eigenvalues(blk))

DMatrix == CallAccessor("D_matrix", D_matrix(blk))

UMatrix == CallAccessor("U_matrix", U_matrix(blk))

\* A client's own call of add_term_and_state_contribution on a built block,
\* with a term and an ascending index list of its choice.
AddTermAndState ==
    /\ blk.status = "built"
    /\ blk.calls < MaxDirectCalls
    /\ \E t \in Range(TermLoop), S \in SUBSET Modes :
          LET r == add_term_and_state_contribution(blk, t[1], t[2], t[3], t[4],
                                                   AscList(S))
          IN /\ blk' = [r.self EXCEPT !.calls = @ + 1]
             /\ ret' = [NoRet EXCEPT !.op = "add_term_and_state_contribution",
                                     !.exc = r.exc, !.term = t, !.bra = r.bra,
                                     !.accumulated = (r.self.matrix # blk.matrix)]
    /\ UNCHANGED <<N, Q, cls, order, indices, arg>>

\* A client's own call of add_hamiltonian_term_contribution on a built block.
AddHamiltonianTerm ==
    /\ blk.status = "built"
    /\ \E t \in Range(TermLoop) :
          LET r == add_hamiltonian_term_contribution(blk, t[1], t[2], t[3], t[4])
          IN /\ blk' = r.self
             /\ ret' = [NoRet EXCEPT !.op = "add_hamiltonian_term_contribution",
                                     !.exc = r.exc, !.term = t,
                                     !.produced = r.produced]
    /\ UNCHANGED <<N, Q, cls, order, indices, arg>>

Next ==
    \/ NewOptimized
    \/ NewOptimizedWithoutJ
    \/ NewNaive
    \/ Diagonalize
    \/ Eigenvalues
    \/ DMatrix
    \/ UMatrix
    \/ AddHamiltonianTerm

Spec == Init /\ [][Next]_vars

-----------------------------------------------------------------------------
(* A block and a client's own calls of add_term_and_state_contribution.    *)

InitCalls ==
    /\ N \in 1 .. MaxCallN
    /\ Q \in 0 .. N
    /\ cls \in Classes
    /\ order = TermLoop
    /\ blk = NoBlock
    /\ ret = NoRet
    /\ indices = << >>
    /\ arg = 0

NextCalls == NewOptimized \/ NewNaive \/ AddTermAndState

SpecCalls == InitCalls /\ [][NextCalls]_vars

-----------------------------------------------------------------------------
(* The assemblers with the order of the term loops as an input: the order  *)
(* of the code with one term moved to the front.                           *)

MoveToFront(s, a) ==
    [x \in 1 .. Len(s) |-> IF x = 1 THEN s[a] ELSE IF x <= a THEN s[x - 1] ELSE s[x]]

InitOrder ==
    /\ N \in 1 .. MaxN
    /\ Q \in 0 .. N
    /\ cls \in Classes
    /\ order \in {TermLoop} \cup {MoveToFront(TermLoop, a) : a \in 1 .. Len(TermLoop)}
    /\ blk = NoBlock
    /\ ret = NoRet
    /\ indices = << >>
    /\ arg = 0

NextOrder == NewOptimized \/ NewNaive

SpecOrder == InitOrder /\ [][NextOrder]_vars

-----------------------------------------------------------------------------
(* The two index-expansion methods, called on a list and a position.       *)

InitExpander ==
    /\ N = 1
    /\ Q = 0
    /\ cls = "KitaevHamiltonianBlock"
    /\ order = TermLoop
    /\ blk = NoBlock
    /\ ret = NoRet
    /\ indices \in {AscList(S) : S \in SUBSET (0 .. (MaxIndex - 1))}
    /\ arg \in 0 .. MaxIndex

CallInsertIndexAndShift ==
    /\ ret.op = "none"
    /\ LET r == insert_index_and_shift(indices, arg)
       IN /\ indices' = r.indices
          /\ ret' = [NoRet EXCEPT !.op = "insert_index_and_shift", !.exc = r.exc,
                                  !.ind = indices]
    /\ UNCHANGED <<N, Q, cls, order, blk, arg>>

CallShiftStartingAtIndex ==
    /\ ret.op = "none"
    /\ LET r == shift_starting_at_index(indices, arg)
       IN /\ indices' = r.indices
          /\ ret' = [NoRet EXCEPT !.op = "shift_starting_at_index", !.exc = r.exc,
                                  !.ind = indices]
    /\ UNCHANGED <<N, Q, cls, order, blk, arg>>

NextExpander == CallInsertIndexAndShift \/ CallShiftStartingAtIndex

SpecExpander == InitExpander /\ [][NextExpander]_vars

-----------------------------------------------------------------------------
(* The properties.                                                         *)

\* C1: whenever the optimized constructor has run for a sector (N, Q), it
\* has returned a block whose matrix equals, entry by entry and for every
\* tensor J, the matrix the naive assembler builds for the same sector.
C1_OptimizedEqualsNaive ==
    ret.op = "KitaevHamiltonianBlock(N, Q, J)" =>
        LET naive == initialize_block_matrix_naive_implementation(NoBlock, order)
        IN /\ blk.status = "built"
           /\ naive.exc = "none"
           /\ blk.matrix = naive.self.matrix

\* C2: every contribution accumulated into a block's matrix comes from a ket
\* and a bra that both have charge Q, and a call of
\* add_term_and_state_contribution whose bra is nonzero with another charge
\* ends in the assertion without accumulating anything.
C2_ChargeConserved ==
    /\ \A e \in blk.log :
          Cardinality(e.ket_occ) = Q /\ Cardinality(e.bra_occ) = Q
    /\ (/\ ret.op = "add_term_and_state_contribution"
        /\ ~is_zero(ret.bra)
        /\ charge(ret.bra) # Q)
       => (ret.exc = "AssertionError" /\ ~ret.accumulated)

\* The naive assembler has accumulated entries, and a later call with a ket
\* of another charge was stopped by the assertion.
C2_Witness ==
    /\ \E e \in blk.log : e.by = "naive"
    /\ ret.op = "add_term_and_state_contribution"
    /\ ~is_zero(ret.bra)
    /\ charge(ret.bra) # Q
    /\ ret.exc = "AssertionError"

ExpectedInsert(ind, p) ==
    AscList({IF x >= p THEN x + 1 ELSE x : x \in Range(ind)} \cup {p})

ExpectedShift(ind, p) ==
    AscList({IF x >= p THEN x + 1 ELSE x : x \in Range(ind)})

\* C3: after insert_index_and_shift(indices, p) the list holds the original
\* elements, those >= p incremented by 1, and p, in ascending order.
C3_InsertAndShift ==
    ret.op = "insert_index_and_shift" => indices = ExpectedInsert(ret.ind, arg)

\* C4: after shift_starting_at_index(indices, p) the list holds the original
\* elements, those >= p incremented by 1, and nothing else.
C4_ShiftOnly ==
    ret.op = "shift_starting_at_index" => indices = ExpectedShift(ret.ind, arg)

\* C5: the diagonalized flag, once true, stays true, and a diagonalize call
\* made on a diagonalized block returns without changing the eigenvalues,
\* the eigenvectors or the matrix.
C5_DiagonalizeIdempotent ==
    [][/\ blk.diagonalized = "True" => blk'.diagonalized = "True"
       /\ (ret'.op = "diagonalize" /\ ret'.pre = "True") =>
             /\ ret'.exc = "none"
             /\ blk'.evs = blk.evs
             /\ blk'.U = blk.U
             /\ blk'.matrix = blk.matrix]_vars

\* diagonalize has been called on a block that was already diagonalized.
C5_Witness ==
    ret.op = "diagonalize" /\ ret.pre = "True" /\ blk.diagonalized = "True"

Accessors == {"eigenvalues", "D_matrix", "U_matrix"}

\* C6: an accessor called on a built block of either class before any call
\* of diagonalize fails with the precondition's AssertionError and returns
\* nothing.
C6_AccessorBeforeDiagonalize ==
    (ret.op \in Accessors /\ ~ret.called) =>
        (ret.exc = "AssertionError" /\ ret.value = "none")

\* The ascending Q-tuples of modes that contain k and l and none of the
\* modes of {i, j} outside {k, l}.
ExpectedKets(t) ==
    {AscList(S) : S \in {X \in SUBSET Modes :
        /\ Cardinality(X) = Q
        /\ {t[3], t[4]} \subseteq X
        /\ X \cap ({t[1], t[2]} \ {t[3], t[4]}) = {}}}

\* C7: a call of add_hamiltonian_term_contribution for a term i<j, k<l
\* produces exactly the index tuples of ExpectedKets, each once.
C7_ExpandedTuples ==
    (/\ ret.op = "add_hamiltonian_term_contribution"
     /\ ret.term[1] < ret.term[2]
     /\ ret.term[3] < ret.term[4])
    => /\ Range(ret.produced) = ExpectedKets(ret.term)
       /\ Len(ret.produced) = Cardinality(ExpectedKets(ret.term))

\* C8: every contribution add_term_and_state_contribution accumulates goes
\* to the row of the resulting state's rank and the column of the rank the
\* ket had before the operators acted.
C8_ContributionIndices ==
    \A e \in blk.log :
        e.by = "add_term_and_state_contribution" =>
            /\ e.bra_n = RankOf(e.bra_occ)
            /\ e.ket_n = RankOf(e.ket_occ)

\* C9: whatever the order of the term loops, a constructor ends as it does
\* with the order of the code, with the same matrix.
C9_OrderIndependent ==
    blk.status # "unbuilt" =>
        LET ref == IF cls = "NaiveKitaevHamiltonianBlock"
                   THEN NaiveKitaevHamiltonianBlock_init(TermLoop)
                   ELSE KitaevHamiltonianBlock_init(TermLoop)
        IN blk.status = ref.status /\ blk.matrix = ref.matrix

\* C10: a diagonalized block has an eigenvector matrix attached.
C10_DiagonalizedHasU ==
    blk.diagonalized = "True" => blk.U # "unset"

====
